---- MODULE Spec2Model ----
(***************************************************************************)
(* Model of the FastAPI fixture application: the auth, users and products  *)
(* endpoints over one relational database.                                 *)
(*                                                                         *)
(* One request is one task.  A handler that writes is split at its awaits  *)
(* (dependency resolution, SELECT, COMMIT), so that requests interleave;   *)
(* a handler that only reads is one step.  The requests in flight are a    *)
(* bag of records, one per request, holding what the request has read so   *)
(* far.  An input a handler does not read before a later await is drawn at *)
(* the step that first reads it.  Every step leaves in last the event it   *)
(* was: the request, and the response when the step ends the request       *)
(* (status 0 while the request goes on).                                   *)
(***************************************************************************)
EXTENDS Integers, Sequences, FiniteSets, Bags, TLC

VARIABLES users, products, tokens, now, inflight, last

vars == <<users, products, tokens, now, inflight, last>>

db == <<users, products>>

---------------------------------------------------------------------------
(* Bounds of the model *)

MaxUserId == 2
MaxProductId == 2
MaxReq == 2
MaxTokens == 2
MaxTicks == 1

(* Program constants *)

ACCESS_TOKEN_EXPIRE_MINUTES == 60 * 24
SearchLimit == 50
DefaultLimit == 100

(* One step of the clock is one minute more than the token lifetime, so a   *)
(* token issued before the step has expired after it.                       *)
TickMinutes == ACCESS_TOKEN_EXPIRE_MINUTES + 1

---------------------------------------------------------------------------
(* Values *)

None == << >>
Some(x) == <<x>>

Max(S) == CHOOSE m \in S : \A k \in S : k <= m

Restrict(f, S) == [k \in S |-> f[k]]

(* INTEGER PRIMARY KEY on the default SQLite database: the new rowid is the *)
(* largest stored rowid plus one.                                           *)
NextId(tbl) == IF DOMAIN tbl = {} THEN 1 ELSE Max(DOMAIN tbl) + 1

RootEmail == "root@x.io"
Emails == {"a@x.io"}
RegisterNames == {"Ann"}
RegisterPasswords == {"pw1"}
LoginEmails == {"a@x.io", "d@x.io", RootEmail}
LoginPasswords == {"pw1", "bad"}

(* core/security.py is not part of the sources: a one-way hash that is not  *)
(* the identity, and its verification.                                      *)
get_password_hash(plain) == <<"hash", plain>>

verify_password(plain, hashed) == hashed = get_password_hash(plain)

create_access_token(sub, expires_delta) == [sub |-> sub, exp |-> now + expires_delta]

(* What a caller can send as its bearer credential: nothing, a string that  *)
(* is no token the server signed, or a token the server issued.             *)
NoToken == [sub |-> 0, exp |-> -1]
Garbage == [sub |-> 0, exp |-> -2]
Creds == {NoToken, Garbage} \cup tokens

User_admin(email, hashed_password, name) ==
    [email |-> email, hashed_password |-> hashed_password, name |-> name,
     role |-> "admin", is_active |-> TRUE,
     created_at |-> now, updated_at |-> now]

(* models/user.py: the columns of a users row with their defaults *)
User(email, hashed_password, name) ==
    [email |-> email, hashed_password |-> hashed_password, name |-> name,
     role |-> "user", is_active |-> TRUE,
     created_at |-> now, updated_at |-> now]

UserByEmail(email) == {u \in DOMAIN users : users[u].email = email}

EmailUniqueOk_off(uid, email) == TRUE

(* unique=True on users.email: the constraint the database checks when a    *)
(* row is inserted or its email updated.                                    *)
EmailUniqueOk(uid, email) ==
    \A u \in DOMAIN users : u /= uid => users[u].email /= email

(* The requests in flight *)
CanStart == BagCardinality(inflight) < MaxReq
Started(r) == inflight (+) SetToBag({r})
Ended(r) == inflight (-) SetToBag({r})
Moved(r, r2) == (inflight (-) SetToBag({r})) (+) SetToBag({r2})
Running == BagToSet(inflight)

(* api/deps.py is not part of the sources.  "authenticated": a valid bearer *)
(* token resolves to an active user, Unauthorized otherwise; "admin":       *)
(* authenticated and role = admin, Forbidden otherwise.                     *)
get_current_user(cred) ==
    IF cred \in tokens /\ now <= cred.exp /\ cred.sub \in DOMAIN users
       /\ users[cred.sub].is_active
    THEN [status |-> 200, user |-> cred.sub]
    ELSE [status |-> 401, user |-> 0]

get_current_admin_user(cred) ==
    LET r == get_current_user(cred) IN
    IF r.status /= 200 THEN r
    ELSE IF users[r.user].role /= "admin" THEN [status |-> 403, user |-> 0]
    ELSE r

---------------------------------------------------------------------------
(* Auth endpoints *)

(* register, up to the await of the SELECT: the existence check *)
RegisterSelect(email) ==
    /\ CanStart
    /\ IF UserByEmail(email) /= {}
       THEN /\ last' = [op |-> "register", step |-> "select", email |-> email,
                        status |-> 400, detail |-> "Email already registered"]
            /\ UNCHANGED inflight
       ELSE /\ last' = [op |-> "register", step |-> "select", email |-> email,
                        status |-> 0]
            /\ inflight' = Started([op |-> "register", email |-> email])
    /\ UNCHANGED <<users, products, tokens, now>>

(* register, from the hashing to the return: INSERT, COMMIT, refresh *)
RegisterCommit(r, password, name) ==
    /\ r \in Running /\ r.op = "register"
    /\ LET id == NextId(users)
           user == User(r.email, get_password_hash(password), name)
       IN  IF ~EmailUniqueOk(0, r.email)
           THEN /\ last' = [op |-> "register", step |-> "commit", email |-> r.email,
                            status |-> 500]
                /\ UNCHANGED users
           ELSE /\ id <= MaxUserId
                /\ users' = (id :> user) @@ users
                /\ last' = [op |-> "register", step |-> "commit", email |-> r.email,
                            status |-> 201, id |-> id]
    /\ inflight' = Ended(r)
    /\ UNCHANGED <<products, tokens, now>>

login_active_first(email, password) ==
    LET found == UserByEmail(email) IN
    IF found = {}
    THEN [status |-> 401, detail |-> "Invalid credentials", token |-> NoToken]
    ELSE LET u == CHOOSE u \in found : TRUE IN
         IF ~users[u].is_active
         THEN [status |-> 401, detail |-> "Account disabled", token |-> NoToken]
         ELSE IF ~verify_password(password, users[u].hashed_password)
         THEN [status |-> 401, detail |-> "Invalid credentials", token |-> NoToken]
         ELSE [status |-> 200, detail |-> "",
               token |-> create_access_token(u, ACCESS_TOKEN_EXPIRE_MINUTES)]

(* login, lines 61-83, as a function of the request and the users table *)
login(email, password) ==
    LET found == UserByEmail(email) IN
    IF found = {}
    THEN [status |-> 401, detail |-> "Invalid credentials", token |-> NoToken]
    ELSE LET u == CHOOSE u \in found : TRUE IN
         IF ~verify_password(password, users[u].hashed_password)
         THEN [status |-> 401, detail |-> "Invalid credentials", token |-> NoToken]
         ELSE IF ~users[u].is_active
         THEN [status |-> 401, detail |-> "Account disabled", token |-> NoToken]
         ELSE [status |-> 200, detail |-> "",
               token |-> create_access_token(u, ACCESS_TOKEN_EXPIRE_MINUTES)]

Login(email, password) ==
    LET r == login(email, password) IN
    /\ r.status = 200 => Cardinality(tokens \cup {r.token}) <= MaxTokens
    /\ tokens' = IF r.status = 200 THEN tokens \cup {r.token} ELSE tokens
    /\ last' = [op |-> "login", email |-> email, password |-> password,
                status |-> r.status, detail |-> r.detail, token |-> r.token]
    /\ UNCHANGED <<users, products, now, inflight>>

Logout ==
    /\ last' = [op |-> "logout", status |-> 200]
    /\ UNCHANGED <<users, products, tokens, now, inflight>>

(* Time passes *)
Tick ==
    /\ now + TickMinutes <= MaxTicks * TickMinutes
    /\ now' = now + TickMinutes
    /\ last' = [op |-> "tick", status |-> 0]
    /\ UNCHANGED <<users, products, tokens, inflight>>

---------------------------------------------------------------------------
(* Result sets.  No query of the program has an ORDER BY, so which rows an  *)
(* OFFSET/LIMIT keeps is the database's choice: every choice is modelled.   *)

RECURSIVE KSubsets(_, _)
KSubsets(S, k) ==
    IF k = 0 THEN {{}}
    ELSE IF Cardinality(S) < k THEN {}
    ELSE LET x == CHOOSE y \in S : TRUE IN
         {T \cup {x} : T \in KSubsets(S \ {x}, k - 1)} \cup KSubsets(S \ {x}, k)

(* SQLite: a negative OFFSET is 0 and a negative LIMIT is no limit *)
Page(M, skip, limit) ==
    LET n == Cardinality(M)
        off == IF skip < 0 THEN 0 ELSE skip
        avail == IF n > off THEN n - off ELSE 0
        cnt == IF limit < 0 \/ limit > avail THEN avail ELSE limit
    IN  IF 2 * cnt > n THEN {M \ E : E \in KSubsets(M, n - cnt)}
        ELSE KSubsets(M, cnt)

Pages == {<<0, DefaultLimit>>, <<1, 1>>}

---------------------------------------------------------------------------
(* User endpoints *)

GetUsers(cred, skip, limit) ==
    LET a == get_current_admin_user(cred) IN
    /\ IF a.status /= 200
       THEN last' = [op |-> "get_users", step |-> "auth", cred |-> cred,
                     status |-> a.status]
       ELSE \E body \in Page(DOMAIN users, skip, limit) :
               last' = [op |-> "get_users", step |-> "auth", cred |-> cred,
                        status |-> 200, body |-> body]
    /\ UNCHANGED <<users, products, tokens, now, inflight>>

GetMe(cred) ==
    LET a == get_current_user(cred) IN
    /\ last' = IF a.status /= 200
               THEN [op |-> "get_me", cred |-> cred, status |-> a.status]
               ELSE [op |-> "get_me", cred |-> cred, status |-> 200,
                     id |-> a.user, body |-> users[a.user]]
    /\ UNCHANGED <<users, products, tokens, now, inflight>>

GetUser(cred, user_id) ==
    LET a == get_current_user(cred) IN
    /\ last' = IF a.status /= 200
               THEN [op |-> "get_user", cred |-> cred, id |-> user_id,
                     status |-> a.status]
               ELSE IF user_id \notin DOMAIN users
               THEN [op |-> "get_user", cred |-> cred, id |-> user_id, status |-> 404]
               ELSE [op |-> "get_user", cred |-> cred, id |-> user_id,
                     status |-> 200, body |-> users[user_id]]
    /\ UNCHANGED <<users, products, tokens, now, inflight>>

(* schemas/user.py UserUpdate: both fields optional, null when absent *)
UpdateNames == {"Bob"}
UpdateEmails == {"a@x.io"}
UserUpdates ==
    [name : {None} \cup {Some(n) : n \in UpdateNames},
     email : {None} \cup {Some(e) : e \in UpdateEmails}]

(* lines 45-48: the attributes the handler assigns on the loaded row *)
user_assignments(update_data) ==
    {f \in {"name", "email"} : update_data[f] /= None}

(* The ORM writes, at COMMIT, the assigned attributes whose value differs   *)
(* from the one loaded with the row: the writes are computed against the    *)
(* row as the dependency loaded it.                                         *)
user_writes(row, update_data) ==
    LET dirty == {f \in user_assignments(update_data) : update_data[f][1] /= row[f]}
    IN  [f \in dirty |-> update_data[f][1]]

(* update_current_user, the dependency: the caller's row is loaded *)
UpdateMeAuth(cred, update_data) ==
    LET a == get_current_user(cred) IN
    /\ CanStart
    /\ last' = [op |-> "update_me", step |-> "auth", cred |-> cred,
                status |-> IF a.status = 200 THEN 0 ELSE a.status]
    /\ inflight' = IF a.status /= 200 THEN inflight
                   ELSE Started([op |-> "update_me", cur |-> a.user,
                                 payload |-> update_data,
                                 writes |-> user_writes(users[a.user], update_data)])
    /\ UNCHANGED <<users, products, tokens, now>>

(* update_current_user, the body: the assignments, COMMIT and refresh.  The *)
(* UPDATE is by primary key and must match one row; updated_at is set by    *)
(* onupdate whenever an UPDATE is emitted.                                  *)
UpdateMeCommit(r) ==
    /\ r \in Running /\ r.op = "update_me"
    /\ LET cur == r.cur
           ev == [op |-> "update_me", step |-> "commit", id |-> cur,
                  payload |-> r.payload]
       IN  IF cur \notin DOMAIN users
           THEN /\ last' = ev @@ [status |-> 500]
                /\ UNCHANGED users
           ELSE IF DOMAIN r.writes = {}
           THEN /\ last' = ev @@ [status |-> 200]
                /\ UNCHANGED users
           ELSE IF "email" \in DOMAIN r.writes /\ ~EmailUniqueOk(cur, r.writes.email)
           THEN /\ last' = ev @@ [status |-> 500]
                /\ UNCHANGED users
           ELSE /\ users' = [users EXCEPT ![cur] =
                     [f \in DOMAIN users[cur] |->
                        IF f \in DOMAIN r.writes THEN r.writes[f]
                        ELSE IF f = "updated_at" THEN now
                        ELSE users[cur][f]]]
                /\ last' = ev @@ [status |-> 200]
    /\ inflight' = Ended(r)
    /\ UNCHANGED <<products, tokens, now>>

DeleteUserAuth(cred) ==
    LET a == get_current_admin_user(cred) IN
    /\ CanStart
    /\ last' = [op |-> "delete_user", step |-> "auth", cred |-> cred,
                status |-> IF a.status = 200 THEN 0 ELSE a.status]
    /\ inflight' = IF a.status /= 200 THEN inflight
                   ELSE Started([op |-> "delete_user", pc |-> "select"])
    /\ UNCHANGED <<users, products, tokens, now>>

DeleteUserSelect(r, user_id) ==
    /\ r \in Running /\ r.op = "delete_user" /\ r.pc = "select"
    /\ IF user_id \notin DOMAIN users
       THEN /\ last' = [op |-> "delete_user", step |-> "select", id |-> user_id,
                        status |-> 404]
            /\ inflight' = Ended(r)
       ELSE /\ last' = [op |-> "delete_user", step |-> "select", id |-> user_id,
                        status |-> 0]
            /\ inflight' = Moved(r, [op |-> "delete_user", pc |-> "commit",
                                     id |-> user_id])
    /\ UNCHANGED <<users, products, tokens, now>>

(* db.delete and COMMIT.  The products relationship has no delete cascade:  *)
(* the ORM sets owner_id of the user's products to NULL (an UPDATE, so      *)
(* updated_at is set).  A DELETE that matches no row is only a warning.     *)
DeleteUserCommit(r) ==
    /\ r \in Running /\ r.op = "delete_user" /\ r.pc = "commit"
    /\ users' = Restrict(users, DOMAIN users \ {r.id})
    /\ products' = [p \in DOMAIN products |->
                      IF products[p].owner_id = Some(r.id)
                      THEN [products[p] EXCEPT !.owner_id = None, !.updated_at = now]
                      ELSE products[p]]
    /\ last' = [op |-> "delete_user", step |-> "commit", id |-> r.id, status |-> 204]
    /\ inflight' = Ended(r)
    /\ UNCHANGED <<tokens, now>>

---------------------------------------------------------------------------
(* Product endpoints *)

(* Strings that a query inspects are sequences of characters *)
Tea == <<"T", "e", "a">>
Tin == <<"t", "i", "n">>
ProductNames == {Tea, Tin}
Queries == {<<"t">>, <<"E", "A">>, <<"_">>}
PriceBounds == {None, Some(1), Some(2)}
Categories == {None, Some(""), Some("c1")}

Lower(c) ==
    CASE c = "T" -> "t" [] c = "E" -> "e" [] c = "A" -> "a" [] c = "I" -> "i"
      [] c = "N" -> "n" [] OTHER -> c

LowerStr(str) == [i \in 1..Len(str) |-> Lower(str[i])]

(* SQL LIKE: % matches any run of characters, _ any one character *)
RECURSIVE LikeMatch(_, _)
LikeMatch(pat, str) ==
    IF pat = << >> THEN str = << >>
    ELSE IF Head(pat) = "%"
    THEN LikeMatch(Tail(pat), str) \/ (str /= << >> /\ LikeMatch(pat, Tail(str)))
    ELSE /\ str /= << >>
         /\ Head(pat) = "_" \/ Head(pat) = Head(str)
         /\ LikeMatch(Tail(pat), Tail(str))

(* column.ilike(pattern): lower(column) LIKE lower(pattern) *)
ilike(str, pat) == LikeMatch(LowerStr(pat), LowerStr(str))

Product_inactive(product_data, owner_id) ==
    [name |-> Some(product_data.name), description |-> product_data.description,
     price |-> Some(product_data.price), category |-> Some(product_data.category),
     stock |-> Some(product_data.stock),
     is_active |-> FALSE, owner_id |-> Some(owner_id),
     created_at |-> now, updated_at |-> now]

(* models/product.py: the columns of a products row with their defaults;    *)
(* product_data is ProductCreate.model_dump().                              *)
Product(product_data, owner_id) ==
    [name |-> Some(product_data.name), description |-> product_data.description,
     price |-> Some(product_data.price), category |-> Some(product_data.category),
     stock |-> Some(product_data.stock),
     is_active |-> TRUE, owner_id |-> Some(owner_id),
     created_at |-> now, updated_at |-> now]

(* schemas/product.py ProductCreate *)
ProductCreates ==
    [name : ProductNames, description : {None}, price : {2},
     category : {"c1"}, stock : {0}]

(* schemas/product.py ProductUpdate: the fields a request set, an explicit  *)
(* null included.                                                           *)
ProductFields == {"name", "description", "price", "category", "stock"}
NoFields == [f \in {} |-> None]
ProductUpdates ==
    {NoFields,
     [name |-> Some(Tin), price |-> Some(2)],
     [price |-> Some(1), description |-> Some("d")],
     [name |-> None]}

get_products_query_all(category) ==
    {p \in DOMAIN products :
        (category /= None /\ category /= Some(""))
              => products[p].category = category}

(* lines 26-29: the rows the listing selects *)
get_products_query(category) ==
    {p \in DOMAIN products :
        /\ products[p].is_active = TRUE
        /\ (category /= None /\ category /= Some(""))
              => products[p].category = category}

GetProducts(skip, limit, category) ==
    /\ \E body \in Page(get_products_query(category), skip, limit) :
          last' = [op |-> "get_products", skip |-> skip, limit |-> limit,
                   category |-> category, status |-> 200, body |-> body]
    /\ UNCHANGED <<users, products, tokens, now, inflight>>

(* lines 45-53: the rows the search selects *)
search_products_query(q, min_price, max_price) ==
    {p \in DOMAIN products :
        /\ products[p].is_active = TRUE
        /\ ilike(products[p].name[1], <<"%">> \o q \o <<"%">>)
        /\ min_price /= None => products[p].price[1] >= min_price[1]
        /\ max_price /= None => products[p].price[1] <= max_price[1]}

SearchProducts(q, min_price, max_price) ==
    /\ \E body \in Page(search_products_query(q, min_price, max_price), 0, SearchLimit) :
          last' = [op |-> "search_products", q |-> q, min_price |-> min_price,
                   max_price |-> max_price, status |-> 200, body |-> body]
    /\ UNCHANGED <<users, products, tokens, now, inflight>>

GetProduct(product_id) ==
    /\ last' = IF product_id \notin DOMAIN products
               THEN [op |-> "get_product", id |-> product_id, status |-> 404]
               ELSE [op |-> "get_product", id |-> product_id, status |-> 200,
                     body |-> products[product_id]]
    /\ UNCHANGED <<users, products, tokens, now, inflight>>

CreateProductAuth(cred) ==
    LET a == get_current_admin_user(cred) IN
    /\ CanStart
    /\ last' = [op |-> "create_product", step |-> "auth", cred |-> cred,
                status |-> IF a.status = 200 THEN 0 ELSE a.status]
    /\ inflight' = IF a.status /= 200 THEN inflight
                   ELSE Started([op |-> "create_product", cur |-> a.user])
    /\ UNCHANGED <<users, products, tokens, now>>

CreateProductCommit(r, product_data) ==
    /\ r \in Running /\ r.op = "create_product"
    /\ LET id == NextId(products) IN
       /\ id <= MaxProductId
       /\ products' = (id :> Product(product_data, r.cur)) @@ products
       /\ last' = [op |-> "create_product", step |-> "commit", id |-> id,
                   admin |-> r.cur, status |-> 201]
    /\ inflight' = Ended(r)
    /\ UNCHANGED <<users, tokens, now>>

UpdateProductAuth(cred) ==
    LET a == get_current_admin_user(cred) IN
    /\ CanStart
    /\ last' = [op |-> "update_product", step |-> "auth", cred |-> cred,
                status |-> IF a.status = 200 THEN 0 ELSE a.status]
    /\ inflight' = IF a.status /= 200 THEN inflight
                   ELSE Started([op |-> "update_product", pc |-> "select"])
    /\ UNCHANGED <<users, products, tokens, now>>

model_dump(update_data) ==
    [f \in ProductFields |-> IF f \in DOMAIN update_data THEN update_data[f] ELSE None]

(* line 113, update_data.model_dump(exclude_unset=True): the fields the     *)
(* request set, with their values                                           *)
model_dump_exclude_unset(update_data) == update_data

(* lines 113-114: setattr for every item of the dump; the ORM writes, at    *)
(* COMMIT, those whose value differs from the one loaded with the row.      *)
product_writes(row, update_data) ==
    LET dump == model_dump_exclude_unset(update_data)
        dirty == {f \in DOMAIN dump : dump[f] /= row[f]}
    IN  [f \in dirty |-> dump[f]]

UpdateProductSelect(r, product_id, update_data) ==
    /\ r \in Running /\ r.op = "update_product" /\ r.pc = "select"
    /\ IF product_id \notin DOMAIN products
       THEN /\ last' = [op |-> "update_product", step |-> "select",
                        id |-> product_id, status |-> 404]
            /\ inflight' = Ended(r)
       ELSE /\ last' = [op |-> "update_product", step |-> "select",
                        id |-> product_id, status |-> 0]
            /\ inflight' = Moved(r, [op |-> "update_product", pc |-> "commit",
                              id |-> product_id, payload |-> update_data,
                              writes |-> product_writes(products[product_id], update_data)])
    /\ UNCHANGED <<users, products, tokens, now>>

(* nullable=False on products.name and products.price *)
NotNullOk(row) == row.name /= None /\ row.price /= None

(* update_product, the body: the assignments, COMMIT and refresh; the ORM's *)
(* UPDATE as in update_current_user.                                        *)
UpdateProductCommit(r) ==
    /\ r \in Running /\ r.op = "update_product" /\ r.pc = "commit"
    /\ LET id == r.id
           ev == [op |-> "update_product", step |-> "commit", id |-> id,
                  payload |-> r.payload]
           row == [f \in DOMAIN products[id] |->
                     IF f \in DOMAIN r.writes THEN r.writes[f]
                     ELSE IF f = "updated_at" THEN now
                     ELSE products[id][f]]
       IN  IF id \notin DOMAIN products
           THEN /\ last' = ev @@ [status |-> 500]
                /\ UNCHANGED products
           ELSE IF DOMAIN r.writes = {}
           THEN /\ last' = ev @@ [status |-> 200]
                /\ UNCHANGED products
           ELSE IF ~NotNullOk(row)
           THEN /\ last' = ev @@ [status |-> 500]
                /\ UNCHANGED products
           ELSE /\ products' = [products EXCEPT ![id] = row]
                /\ last' = ev @@ [status |-> 200]
    /\ inflight' = Ended(r)
    /\ UNCHANGED <<users, tokens, now>>

DeleteProductAuth_any(cred) ==
    LET a == get_current_user(cred) IN
    /\ CanStart
    /\ last' = [op |-> "delete_product", step |-> "auth", cred |-> cred,
                status |-> IF a.status = 200 THEN 0 ELSE a.status]
    /\ inflight' = IF a.status /= 200 THEN inflight
                   ELSE Started([op |-> "delete_product", pc |-> "select"])
    /\ UNCHANGED <<users, products, tokens, now>>

(* delete_product, the dependency: current_user = Depends(get_current_admin_user) *)
DeleteProductAuth(cred) ==
    LET a == get_current_admin_user(cred) IN
    /\ CanStart
    /\ last' = [op |-> "delete_product", step |-> "auth", cred |-> cred,
                status |-> IF a.status = 200 THEN 0 ELSE a.status]
    /\ inflight' = IF a.status /= 200 THEN inflight
                   ELSE Started([op |-> "delete_product", pc |-> "select"])
    /\ UNCHANGED <<users, products, tokens, now>>

DeleteProductSelect(r, product_id) ==
    /\ r \in Running /\ r.op = "delete_product" /\ r.pc = "select"
    /\ IF product_id \notin DOMAIN products
       THEN /\ last' = [op |-> "delete_product", step |-> "select",
                        id |-> product_id, status |-> 404]
            /\ inflight' = Ended(r)
       ELSE /\ last' = [op |-> "delete_product", step |-> "select",
                        id |-> product_id, status |-> 0]
            /\ inflight' = Moved(r, [op |-> "delete_product", pc |-> "commit",
                                     id |-> product_id])
    /\ UNCHANGED <<users, products, tokens, now>>

(* db.delete and COMMIT; a DELETE that matches no row is only a warning *)
DeleteProductCommit(r) ==
    /\ r \in Running /\ r.op = "delete_product" /\ r.pc = "commit"
    /\ products' = Restrict(products, DOMAIN products \ {r.id})
    /\ last' = [op |-> "delete_product", step |-> "commit", id |-> r.id,
                status |-> 204]
    /\ inflight' = Ended(r)
    /\ UNCHANGED <<users, tokens, now>>

---------------------------------------------------------------------------
(* The database at startup: create_tables leaves the rows of an earlier     *)
(* run in place.  Rows the API cannot produce (an admin, a disabled         *)
(* account, a deactivated product) come from there.                         *)

Root ==
    [email |-> RootEmail, hashed_password |-> get_password_hash("pw1"),
     name |-> "Root", role |-> "admin", is_active |-> TRUE,
     created_at |-> 0, updated_at |-> 0]

Disabled ==
    [email |-> "d@x.io", hashed_password |-> get_password_hash("pw1"),
     name |-> "Dan", role |-> "user", is_active |-> FALSE,
     created_at |-> 0, updated_at |-> 0]

Ann ==
    [email |-> "a@x.io", hashed_password |-> get_password_hash("pw1"),
     name |-> "Ann", role |-> "user", is_active |-> TRUE,
     created_at |-> 0, updated_at |-> 0]

Hidden ==
    [name |-> Some(Tea), description |-> None, price |-> Some(1),
     category |-> Some("c1"), stock |-> Some(0), is_active |-> FALSE,
     owner_id |-> Some(1), created_at |-> 0, updated_at |-> 0]

NoRows == [k \in {} |-> None]

InitCommon ==
    /\ tokens = {}
    /\ now = 0
    /\ inflight = EmptyBag
    /\ last = [op |-> "startup", status |-> 0]

---------------------------------------------------------------------------
(* The whole service: every request, MaxReq of them in flight at once *)

Init ==
    /\ users \in {1 :> Root, (1 :> Root) @@ (2 :> Disabled)}
    /\ products \in {NoRows, 1 :> Hidden}
    /\ InitCommon

Next ==
    \/ \E email \in Emails : RegisterSelect(email)
    \/ \E r \in Running, password \in RegisterPasswords, name \in RegisterNames :
          RegisterCommit(r, password, name)
    \/ \E email \in LoginEmails, password \in LoginPasswords : Login(email, password)
    \/ Logout
    \/ Tick
    \/ \E cred \in Creds, pg \in Pages : GetUsers(cred, pg[1], pg[2])
    \/ \E cred \in Creds : GetMe(cred)
    \/ \E cred \in Creds, user_id \in 1..MaxUserId : GetUser(cred, user_id)
    \/ \E cred \in Creds, update_data \in UserUpdates : UpdateMeAuth(cred, update_data)
    \/ \E r \in Running : UpdateMeCommit(r)
    \/ \E cred \in Creds : DeleteUserAuth(cred)
    \/ \E r \in Running, user_id \in 1..MaxUserId : DeleteUserSelect(r, user_id)
    \/ \E r \in Running : DeleteUserCommit(r)
    \/ \E pg \in Pages, category \in Categories : GetProducts(pg[1], pg[2], category)
    \/ \E q \in Queries, min_price \in PriceBounds, max_price \in PriceBounds :
          SearchProducts(q, min_price, max_price)
    \/ \E product_id \in 1..MaxProductId : GetProduct(product_id)
    \/ \E cred \in Creds : CreateProductAuth(cred)
    \/ \E r \in Running, product_data \in ProductCreates : CreateProductCommit(r, product_data)
    \/ \E cred \in Creds : UpdateProductAuth(cred)
    \/ \E r \in Running, product_id \in 1..MaxProductId, update_data \in ProductUpdates :
          UpdateProductSelect(r, product_id, update_data)
    \/ \E r \in Running : UpdateProductCommit(r)
    \/ \E cred \in Creds : DeleteProductAuth(cred)
    \/ \E r \in Running, product_id \in 1..MaxProductId : DeleteProductSelect(r, product_id)
    \/ \E r \in Running : DeleteProductCommit(r)

Spec == Init /\ [][Next]_vars

---------------------------------------------------------------------------
(* The account requests: registration, login, profile, deletion of users *)

InitAccounts ==
    /\ users = (1 :> Root) @@ (2 :> Disabled)
    /\ products = 1 :> Hidden
    /\ InitCommon

NextAccounts ==
    \/ \E email \in Emails : RegisterSelect(email)
    \/ \E r \in Running, password \in RegisterPasswords, name \in RegisterNames :
          RegisterCommit(r, password, name)
    \/ \E email \in LoginEmails, password \in LoginPasswords : Login(email, password)
    \/ Logout
    \/ \E cred \in Creds : GetMe(cred)
    \/ \E cred \in Creds, update_data \in UserUpdates : UpdateMeAuth(cred, update_data)
    \/ \E r \in Running : UpdateMeCommit(r)
    \/ \E cred \in Creds : DeleteUserAuth(cred)
    \/ \E r \in Running, user_id \in 1..MaxUserId : DeleteUserSelect(r, user_id)
    \/ \E r \in Running : DeleteUserCommit(r)

SpecAccounts == InitAccounts /\ [][NextAccounts]_vars

---------------------------------------------------------------------------
(* The catalogue requests: an admin's writes and the public reads *)

InitProducts ==
    /\ users = (1 :> Root) @@ (2 :> Ann)
    /\ products = 1 :> Hidden
    /\ InitCommon

Searches ==
    {<<q, b[1], b[2]>> : q \in Queries,
                         b \in {<<None, None>>, <<Some(2), None>>, <<None, Some(1)>>}}

Repricing == [price |-> Some(1), description |-> Some("d")]

NextProducts ==
    \/ \E password \in LoginPasswords : Login(RootEmail, password)
    \/ \E pg \in Pages, category \in Categories : GetProducts(pg[1], pg[2], category)
    \/ \E x \in Searches : SearchProducts(x[1], x[2], x[3])
    \/ \E product_id \in 1..MaxProductId : GetProduct(product_id)
    \/ \E cred \in Creds : CreateProductAuth(cred)
    \/ \E r \in Running, product_data \in ProductCreates : CreateProductCommit(r, product_data)
    \/ \E cred \in Creds : UpdateProductAuth(cred)
    \/ \E r \in Running, product_id \in 1..MaxProductId :
          UpdateProductSelect(r, product_id, Repricing)
    \/ \E r \in Running : UpdateProductCommit(r)
    \/ \E cred \in Creds : DeleteProductAuth(cred)
    \/ \E r \in Running, product_id \in 1..MaxProductId : DeleteProductSelect(r, product_id)
    \/ \E r \in Running : DeleteProductCommit(r)

SpecProducts == InitProducts /\ [][NextProducts]_vars

---------------------------------------------------------------------------
(* The admin-only routes and the reads by id, while time passes *)

InitAdmin ==
    /\ users = (1 :> Root) @@ (2 :> Ann)
    /\ products = 1 :> Hidden
    /\ InitCommon

NewProduct == [name |-> Tin, description |-> None, price |-> 2, category |-> "c1", stock |-> 0]

NextAdmin ==
    \/ \E email \in {RootEmail, "a@x.io"} : Login(email, "pw1")
    \/ Tick
    \/ \E cred \in Creds : GetUsers(cred, 0, DefaultLimit)
    \/ \E cred \in Creds, user_id \in 1..MaxUserId : GetUser(cred, user_id)
    \/ \E cred \in Creds : DeleteUserAuth(cred)
    \/ \E r \in Running, user_id \in 1..MaxUserId : DeleteUserSelect(r, user_id)
    \/ \E r \in Running : DeleteUserCommit(r)
    \/ \E product_id \in 1..MaxProductId : GetProduct(product_id)
    \/ \E cred \in Creds : CreateProductAuth(cred)
    \/ \E r \in Running : CreateProductCommit(r, NewProduct)
    \/ \E cred \in Creds : UpdateProductAuth(cred)
    \/ \E r \in Running, product_id \in 1..MaxProductId :
          UpdateProductSelect(r, product_id, [name |-> Some(Tea)])
    \/ \E r \in Running : UpdateProductCommit(r)
    \/ \E cred \in Creds : DeleteProductAuth(cred)
    \/ \E r \in Running, product_id \in 1..MaxProductId : DeleteProductSelect(r, product_id)
    \/ \E r \in Running : DeleteProductCommit(r)

SpecAdmin == InitAdmin /\ [][NextAdmin]_vars

---------------------------------------------------------------------------
(* The two partial updates, while time passes *)

Visible ==
    [name |-> Some(Tin), description |-> Some("d"), price |-> Some(2),
     category |-> Some("c1"), stock |-> Some(0), is_active |-> TRUE,
     owner_id |-> Some(1), created_at |-> 0, updated_at |-> 0]

InitUpdates ==
    /\ users = (1 :> Root) @@ (2 :> Ann)
    /\ products = (1 :> Hidden) @@ (2 :> Visible)
    /\ InitCommon

NextUpdates ==
    \/ \E email \in {RootEmail, "a@x.io"} : Login(email, "pw1")
    \/ Tick
    \/ \E cred \in Creds, update_data \in UserUpdates : UpdateMeAuth(cred, update_data)
    \/ \E r \in Running : UpdateMeCommit(r)
    \/ \E cred \in Creds : UpdateProductAuth(cred)
    \/ \E r \in Running, product_id \in 1..MaxProductId, update_data \in ProductUpdates :
          UpdateProductSelect(r, product_id, update_data)
    \/ \E r \in Running : UpdateProductCommit(r)

SpecUpdates == InitUpdates /\ [][NextUpdates]_vars

---------------------------------------------------------------------------
(* Properties.  A step's event is last'; the tables before it are users and *)
(* products, after it users' and products'.                                 *)

Ev == last'

EmailStored(email) == \E u \in DOMAIN users : users[u].email = email

(* The rows of tbl2 are those of tbl but for the rows with an id in ids *)
SameBut(tbl, tbl2, ids) ==
    /\ DOMAIN tbl2 \ ids = DOMAIN tbl \ ids
    /\ \A k \in DOMAIN tbl \ ids : tbl2[k] = tbl[k]

(* C1: a register request whose existence check found a user with its email *)
(* answers 400 and leaves the stored users unchanged; a register request    *)
(* whose existence check found none answers 201 and adds exactly one user,  *)
(* with that email, role "user" and is_active true.                         *)
C1_RegisterContract ==
    [][Ev.op = "register" =>
        /\ (Ev.step = "select" /\ EmailStored(Ev.email))
              => (Ev.status = 400 /\ users' = users)
        /\ (Ev.step = "select" /\ ~EmailStored(Ev.email)) => Ev.status = 0
        /\ Ev.step = "commit" =>
              /\ Ev.status = 201
              /\ \E id \in DOMAIN users' \ DOMAIN users :
                    /\ DOMAIN users' = DOMAIN users \cup {id}
                    /\ SameBut(users, users', {id})
                    /\ users'[id].email = Ev.email
                    /\ users'[id].role = "user"
                    /\ users'[id].is_active = TRUE]_vars

(* C2: no two stored users have the same email *)
C2_EmailUnique ==
    \A u, v \in DOMAIN users : u /= v => users[u].email /= users[v].email

(* two register requests for one email had both passed the existence check; *)
(* one was stored, the commit of the other was refused by the constraint    *)
C2_Witness ==
    /\ last.op = "register" /\ last.step = "commit" /\ last.status = 500
    /\ \E u \in DOMAIN users :
          /\ users[u].email = last.email
          /\ users[u].role = "user" /\ users[u].name \in RegisterNames

(* C4: login issues a token exactly when a user with the email exists, the  *)
(* password verifies against its hash and it is active; otherwise it        *)
(* answers 401 and issues none.  Unknown email and wrong password give the  *)
(* same 401; "Account disabled" is given only once the password verified.   *)
C4_Login ==
    [][Ev.op = "login" =>
        LET known == {u \in DOMAIN users : users[u].email = Ev.email}
            verified == {u \in known :
                            verify_password(Ev.password, users[u].hashed_password)}
            granted == {u \in verified : users[u].is_active}
        IN  /\ granted /= {} =>
                 /\ Ev.status = 200
                 /\ Ev.token.sub \in granted
                 /\ Ev.token.exp = now + ACCESS_TOKEN_EXPIRE_MINUTES
                 /\ tokens' = tokens \cup {Ev.token}
            /\ granted = {} => (Ev.status = 401 /\ tokens' = tokens)
            /\ verified = {} => (Ev.status = 401 /\ Ev.detail = "Invalid credentials")
            /\ Ev.detail = "Account disabled" => (verified /= {} /\ Ev.status = 401)
            /\ users' = users]_vars

(* a token was issued to an active user, and a disabled account that gave   *)
(* its password was answered "Account disabled"                             *)
C4_Witness ==
    /\ last.op = "login" /\ last.status = 401 /\ last.detail = "Account disabled"
    /\ \E t \in tokens : t.sub \in DOMAIN users /\ users[t.sub].is_active

(* C9: no step changes the role or the is_active flag of a stored user, a   *)
(* user that appears has role "user" and is active, and the set of admins   *)
(* never grows.                                                             *)
C9_RolesFixed ==
    [][/\ \A u \in DOMAIN users' :
             IF u \in DOMAIN users
             THEN /\ users'[u].role = users[u].role
                  /\ users'[u].is_active = users[u].is_active
             ELSE users'[u].role = "user" /\ users'[u].is_active = TRUE
       /\ {u \in DOMAIN users' : users'[u].role = "admin"}
             \subseteq {u \in DOMAIN users : users[u].role = "admin"}]_vars

(* a registered user has changed its profile *)
C9_Witness ==
    /\ last.op = "update_me" /\ last.step = "commit" /\ last.status = 200
    /\ last.id \in DOMAIN users
    /\ users[last.id].role = "user" /\ users[last.id].name = "Bob"

---------------------------------------------------------------------------

AdminOps ==
    {"get_users", "delete_user", "create_product", "update_product", "delete_product"}

(* the credential is a token the server issued, not expired, of a stored    *)
(* active user                                                              *)
Authenticated(cred) ==
    /\ cred \in tokens /\ now <= cred.exp
    /\ cred.sub \in DOMAIN users /\ users[cred.sub].is_active

(* C3: on an admin-only route a caller without a valid token gets 401 and   *)
(* an authenticated caller who is not admin gets 403; the request ends      *)
(* there, with the tables unchanged and nothing of it left in flight.       *)
C3_AdminOnly ==
    [][(Ev.op \in AdminOps /\ Ev.step = "auth") =>
        /\ ~Authenticated(Ev.cred) =>
              (Ev.status = 401 /\ db' = db /\ inflight' = inflight)
        /\ (Authenticated(Ev.cred) /\ users[Ev.cred.sub].role /= "admin") =>
              (Ev.status = 403 /\ db' = db /\ inflight' = inflight)]_vars

(* a logged-in user who is not admin asked to delete a user: 403 *)
C3_Witness ==
    /\ last.op = "delete_user" /\ last.step = "auth" /\ last.status = 403
    /\ Authenticated(last.cred)

(* C8: a DELETE request whose lookup finds no record with the id answers   *)
(* 404 and changes nothing; a DELETE request answers 204 only for a stored   *)
(* id, and its 204 removes exactly that record; a record that is gone is    *)
(* not returned by get-by-id.                                               *)
C8_Delete ==
    [][/\ (Ev.op = "delete_product" /\ Ev.step = "select") =>
             IF Ev.id \in DOMAIN products THEN Ev.status = 0 /\ db' = db
             ELSE Ev.status = 404 /\ db' = db
       /\ (Ev.op = "delete_product" /\ Ev.step = "commit") =>
             /\ Ev.status = 204
             /\ Ev.id \in DOMAIN products
             /\ DOMAIN products' = DOMAIN products \ {Ev.id}
             /\ SameBut(products, products', {Ev.id})
             /\ users' = users
       /\ (Ev.op = "delete_user" /\ Ev.step = "select") =>
             IF Ev.id \in DOMAIN users THEN Ev.status = 0 /\ db' = db
             ELSE Ev.status = 404 /\ db' = db
       /\ (Ev.op = "delete_user" /\ Ev.step = "commit") =>
             /\ Ev.status = 204
             /\ Ev.id \in DOMAIN users
             /\ DOMAIN users' = DOMAIN users \ {Ev.id}
             /\ SameBut(users, users', {Ev.id})
             /\ DOMAIN products' = DOMAIN products
       /\ (Ev.op = "get_product" /\ Ev.status = 200) => Ev.id \in DOMAIN products
       /\ (Ev.op = "get_product" /\ Ev.id \notin DOMAIN products) => Ev.status = 404
       /\ (Ev.op = "get_user" /\ Ev.status = 200) => Ev.id \in DOMAIN users]_vars

---------------------------------------------------------------------------

UpdatableUserFields == {"name", "email"}

(* the fields a payload supplies: of a profile update those that are not    *)
(* null, of a product update those the request set                         *)
Supplied(ev) ==
    IF ev.op = "update_me" THEN {f \in UpdatableUserFields : ev.payload[f] /= None}
    ELSE DOMAIN ev.payload

(* the step is the commit of a partial update, on table tbl (tbl2 after     *)
(* it): no other record changes, of the record itself no field outside the  *)
(* supplied ones and except changes, and nothing changes at all when the    *)
(* payload supplies no field or the answer is not 200.                      *)
Frame(ev, tbl, tbl2, except) ==
    /\ DOMAIN tbl2 = DOMAIN tbl
    /\ \A k \in DOMAIN tbl : k /= ev.id => tbl2[k] = tbl[k]
    /\ ev.id \in DOMAIN tbl =>
          \A f \in DOMAIN tbl[ev.id] :
             f \notin Supplied(ev) \cup except => tbl2[ev.id][f] = tbl[ev.id][f]
    /\ (Supplied(ev) = {} \/ ev.status /= 200) => tbl2 = tbl

IsUpdateCommit(ev) == ev.op \in {"update_me", "update_product"} /\ ev.step = "commit"

(* C7 as claimed: a partial update leaves every field it does not supply    *)
(* identical.                                                               *)
C7_Original ==
    [][IsUpdateCommit(Ev) =>
         IF Ev.op = "update_me"
         THEN Frame(Ev, users, users', {}) /\ products' = products
         ELSE Frame(Ev, products, products', {}) /\ users' = users]_vars

(* C7 as amended: a partial update leaves every field it does not supply    *)
(* identical, but for updated_at; every other record is unchanged, and an   *)
(* update that supplies no field changes nothing.                           *)
C7_PartialUpdate ==
    [][IsUpdateCommit(Ev) =>
         IF Ev.op = "update_me"
         THEN Frame(Ev, users, users', {"updated_at"}) /\ products' = products
         ELSE Frame(Ev, products, products', {"updated_at"}) /\ users' = users]_vars

(* only the name and the price of product 1 were supplied, and written,    *)
(* after time passed                                                        *)
C7_Witness ==
    /\ last.op = "update_product" /\ last.step = "commit" /\ last.status = 200
    /\ last.payload = [name |-> Some(Tin), price |-> Some(2)]
    /\ last.id = 1
    /\ products[1].name = Some(Tin) /\ products[1].price = Some(2)
    /\ products[1].category = Some("c1") /\ products[1].is_active = FALSE
    /\ products[1].updated_at > 0

---------------------------------------------------------------------------

Contains(str, q) ==
    \E i \in 1..(Len(str) - Len(q) + 1) :
        LowerStr(SubSeq(str, i, i + Len(q) - 1)) = LowerStr(q)

(* the active products whose name contains q and whose price is within the  *)
(* bounds given                                                             *)
Matching(q, min_price, max_price) ==
    {p \in DOMAIN products :
        /\ products[p].is_active
        /\ Contains(products[p].name[1], q)
        /\ min_price /= None => products[p].price[1] >= min_price[1]
        /\ max_price /= None => products[p].price[1] <= max_price[1]}

(* C5: the listing never includes a product that is not active, whatever    *)
(* skip, limit and category; get-by-id answers 200 with the product when    *)
(* it is stored, active or not, and 404 only when it is not stored.         *)
C5_Listing ==
    [][/\ Ev.op = "get_products" =>
             \A p \in Ev.body : p \in DOMAIN products /\ products[p].is_active
       /\ Ev.op = "get_product" =>
             IF Ev.id \in DOMAIN products
             THEN Ev.status = 200 /\ Ev.body = products[Ev.id]
             ELSE Ev.status = 404]_vars

(* a listing answered some product while a deactivated one was stored *)
C5_Witness ==
    /\ last.op = "get_products" /\ last.body /= {}
    /\ \E p \in DOMAIN products : ~products[p].is_active

(* C6: search returns only active products whose name contains q, case      *)
(* ignored, and whose price is within the inclusive bounds given; never     *)
(* more than 50; and exactly the product when exactly one matches.          *)
C6_Search ==
    [][Ev.op = "search_products" =>
         LET m == Matching(Ev.q, Ev.min_price, Ev.max_price) IN
         /\ Ev.body \subseteq m
         /\ Cardinality(Ev.body) <= 50
         /\ Cardinality(m) = 1 => Ev.body = m]_vars

(* C10: a created product is active and owned by the admin who created it;  *)
(* an update changes neither is_active nor owner_id nor the id; so no step  *)
(* makes a product that is not active.                                      *)
C10_ActiveOwned ==
    [][/\ (Ev.op = "create_product" /\ Ev.step = "commit") =>
             /\ Ev.status = 201
             /\ Ev.id \notin DOMAIN products
             /\ DOMAIN products' = DOMAIN products \cup {Ev.id}
             /\ products'[Ev.id].is_active = TRUE
             /\ products'[Ev.id].owner_id = Some(Ev.admin)
             /\ users[Ev.admin].role = "admin"
       /\ (Ev.op = "update_product" /\ Ev.step = "commit") =>
             /\ DOMAIN products' = DOMAIN products
             /\ \A p \in DOMAIN products :
                   /\ products'[p].is_active = products[p].is_active
                   /\ products'[p].owner_id = products[p].owner_id
       /\ \A p \in DOMAIN products' :
             ~products'[p].is_active =>
                 (p \in DOMAIN products /\ ~products[p].is_active)]_vars

(* a product made through the API was updated, and is active and owned *)
C10_Witness ==
    /\ last.op = "update_product" /\ last.step = "commit" /\ last.status = 200
    /\ last.id \in DOMAIN products
    /\ products[last.id].price = Some(1)
    /\ products[last.id].is_active /\ products[last.id].owner_id = Some(1)
    /\ last.id /= 1

====
